---- MODULE Spec2Model ----
(***************************************************************************)
(* Silice codebase mapper: the master index (index.json), the per-file    *)
(* map documents (silice_output/*.json), the mapper run that maintains    *)
(* them (silice_file_mapper.py), and the two readers of the index: the    *)
(* query tool (silice_query.py) and the retrieval bridge                  *)
(* (silice_bridge.py).                                                    *)
(*                                                                         *)
(* Strings are sequences of one-character strings, so that substring      *)
(* tests, separator replacement, lower-casing and whitespace splitting    *)
(* are computed as Python computes them.                                   *)
(***************************************************************************)
EXTENDS Integers, Sequences, FiniteSets, TLC

VARIABLES
    index_json,    \* the file index.json on disk
    docs,          \* the files under silice_output/: name -> content
    pc,            \* mapper process: "idle" | "loop" | "dump"
    master_index,  \* mapper: the in-memory master_index dict of main()
    processed,     \* mapper: how many entries of files_to_process were consumed
    runs,          \* number of mapper runs started so far
    log,           \* mapper: the last line printed
    analyzed,      \* history: the files process_single_file analysed with success
    saved,         \* history: the documents the current run has written
    tool           \* the query tool / bridge: its input, its state and its output

vars == <<index_json, docs, pc, master_index, processed, runs, log, analyzed, saved, tool>>

(***************************************************************************)
(* Bounds of the model.                                                    *)
(***************************************************************************)
MaxRuns == 3
MaxFilesPerRun == 2

(***************************************************************************)
(* Strings.                                                                *)
(***************************************************************************)
Min(S) == CHOOSE x \in S : \A y \in S : x <= y

\* Python's `sub in s` on strings.
IsSubstr(sub, s) ==
    \E i \in 0..(Len(s) - Len(sub)) : SubSeq(s, i + 1, i + Len(sub)) = sub

\* str.replace(old, new) for a one-character `old`.
Replace(s, old, new) == [i \in 1..Len(s) |-> IF s[i] = old THEN new ELSE s[i]]

os_sep == "/"

\* Path.name: the last component of a path.
Name(p) ==
    LET seps == {i \in 1..Len(p) : p[i] = os_sep}
    IN  IF seps = {} THEN p
        ELSE LET last == CHOOSE i \in seps : \A j \in seps : j <= i
             IN  SubSeq(p, last + 1, Len(p))

\* os.getcwd(), and Path.absolute() of a relative path.
Cwd == <<"/", "w">>
Absolute(p) == Cwd \o <<os_sep>> \o p

PyExt == <<".", "p", "y">>
JsonExt == <<".", "j", "s", "o", "n">>
PyCache == <<"_", "_", "p", "y", "c", "a", "c", "h", "e", "_", "_">>

(***************************************************************************)
(* The source tree the mapper is pointed at: the files its path arguments  *)
(* expand to.  Two of them differ only in a separator against an           *)
(* underscore, and one lies in a compiled-cache directory.                 *)
(***************************************************************************)
FileAB    == <<"a", "/", "b">> \o PyExt
FileA_B   == <<"a", "_", "b">> \o PyExt
FileC     == <<"c">> \o PyExt
FileCache == PyCache \o <<"/", "c">> \o PyExt

SourceTree == {FileAB, FileA_B, FileC, FileCache}

\* What the analysis collaborator can return (before the file identity is set).
Analysis(summary, functions, dependencies) ==
    [functions |-> functions, classes |-> <<>>,
     dependencies |-> dependencies, summary |-> summary]

MapperAnalyses ==
    { Analysis(<<"x">>, <<>>, <<>>), Analysis(<<"y">>, <<>>, <<>>) }

(***************************************************************************)
(* Per-file map store.                                                     *)
(***************************************************************************)
OutputDir == <<"o">>

\* safe_name = str(file_path).replace(os.sep, "_") + ".json"
safe_name(file_path) == Replace(file_path, os_sep, "_") \o JsonExt

\* output_file = output_dir / safe_name, taken absolute for map_ref
output_file(file_path) == Absolute(OutputDir \o <<os_sep>> \o safe_name(file_path))

\* A document on disk: the JSON text of a FileNode, or the empty text that
\* open(..., "w") leaves before anything is written.
JsonDoc(value) == [valid |-> TRUE, value |-> value]
TruncatedDoc == [valid |-> FALSE]

\* open(name, "w"); f.write(content)
WriteFile(fs, name, content) ==
    [n \in (DOMAIN fs) \cup {name} |-> IF n = name THEN content ELSE fs[n]]

\* analysis.file_name / analysis.file_path set, then model_dump_json
FileNode(file_path, analysis) ==
    [file_name |-> Name(file_path), file_path |-> Absolute(file_path),
     functions |-> analysis.functions, classes |-> analysis.classes,
     dependencies |-> analysis.dependencies, summary |-> analysis.summary]

(***************************************************************************)
(* Master index.                                                           *)
(***************************************************************************)
EmptyIndex == [project_root |-> Cwd, graph_nodes |-> <<>>]

IndexAbsent == [state |-> "absent"]
IndexTruncated == [state |-> "truncated"]
IndexDoc(value) == [state |-> "json", value |-> value]

\* main(): load index.json, or start fresh when it is absent or corrupt.
LoadIndex(file) == IF file.state = "json" THEN file.value ELSE EmptyIndex

\* node_data with the relative document name as map_ref.
node_data_relative_ref(file_path, analysis) ==
    [file |-> file_path,
     map_ref |-> OutputDir \o <<os_sep>> \o safe_name(file_path),
     summary |-> analysis.summary]

node_data(file_path, analysis) ==
    [file |-> file_path, map_ref |-> output_file(file_path),
     summary |-> analysis.summary]

\* dict.update
DictUpdate(d, u) ==
    [k \in (DOMAIN d) \cup (DOMAIN u) |-> IF k \in DOMAIN u THEN u[k] ELSE d[k]]

\* Upsert without the search for an existing entry.
UpsertAppendOnly(graph_nodes, nd) == Append(graph_nodes, nd)

\* Upsert that drops the existing entry and appends the new one.
UpsertMoveToEnd(graph_nodes, nd) ==
    Append(SelectSeq(graph_nodes, LAMBDA n : n.file # nd.file), nd)

\* The upsert of process_single_file: update the first entry with the same
\* `file` in place, or append.
Upsert(graph_nodes, nd) ==
    LET found == {i \in 1..Len(graph_nodes) : graph_nodes[i].file = nd.file}
    IN  IF found # {}
        THEN [graph_nodes EXCEPT ![Min(found)] = DictUpdate(@, nd)]
        ELSE Append(graph_nodes, nd)

\* The data model of the index: an entry of `file`, and one entry per `file`.
HasEntry(graph_nodes, file) ==
    \E i \in 1..Len(graph_nodes) : graph_nodes[i].file = file

UniqueFiles(graph_nodes) ==
    \A i, j \in 1..Len(graph_nodes) :
        graph_nodes[i].file = graph_nodes[j].file => i = j

NoTool == [op |-> "none"]
NoLog == [msg |-> "none", file |-> <<>>]

(***************************************************************************)
(* The mapper run.                                                         *)
(***************************************************************************)
Init ==
    /\ index_json = IndexAbsent
    /\ docs = <<>>
    /\ pc = "idle"
    /\ master_index = EmptyIndex
    /\ processed = 0
    /\ runs = 0
    /\ log = NoLog
    /\ analyzed = {}
    /\ saved = {}
    /\ tool = NoTool

\* main(), up to the loop: the index is loaded or started fresh.
StartRun ==
    /\ pc = "idle"
    /\ runs < MaxRuns
    /\ runs' = runs + 1
    /\ master_index' = LoadIndex(index_json)
    /\ processed' = 0
    /\ pc' = "loop"
    /\ log' = [msg |-> CASE index_json.state = "json" -> "Loading existing index"
                         [] index_json.state = "truncated" -> "index.json is corrupt"
                         [] OTHER -> "none",
               file |-> <<>>]
    /\ saved' = {}
    /\ UNCHANGED <<index_json, docs, analyzed, tool>>

InLoop ==
    /\ pc = "loop"
    /\ processed < MaxFilesPerRun

\* main(): `if "__pycache__" in str(file): continue`
SkipPycache(file) ==
    /\ InLoop
    /\ IsSubstr(PyCache, file)
    /\ processed' = processed + 1
    /\ UNCHANGED <<index_json, docs, pc, master_index, runs, log, analyzed, saved, tool>>

\* process_single_file: get_static_metadata returned None (SyntaxError).
StaticMetadataFails(file_path) ==
    /\ log' = [msg |-> "Analyzing", file |-> file_path]
    /\ UNCHANGED <<docs, master_index, analyzed, saved>>

\* AnalysisFails with the output file opened before the analysis is asked for.
AnalysisFailsAfterOpen(file_path) ==
    /\ log' = [msg |-> "AI Analysis failed", file |-> file_path]
    /\ docs' = WriteFile(docs, output_file(file_path), TruncatedDoc)
    /\ UNCHANGED <<master_index, analyzed, saved>>

\* process_single_file: analyze_with_ollama raised.
AnalysisFails(file_path) ==
    /\ log' = [msg |-> "AI Analysis failed", file |-> file_path]
    /\ UNCHANGED <<docs, master_index, analyzed, saved>>

\* process_single_file: the analysis is saved and upserted.
AnalysisSucceeds(file_path, analysis) ==
    /\ docs' = WriteFile(docs, output_file(file_path),
                         JsonDoc(FileNode(file_path, analysis)))
    /\ master_index' =
         [master_index EXCEPT
            !.graph_nodes = Upsert(@, node_data(file_path, analysis))]
    /\ log' = [msg |-> IF HasEntry(master_index.graph_nodes, file_path)
                       THEN "Updated index" ELSE "Added to index",
               file |-> file_path]
    /\ analyzed' = analyzed \cup {file_path}
    /\ saved' = saved \cup {output_file(file_path)}

process_single_file(file_path) ==
    /\ InLoop
    /\ ~IsSubstr(PyCache, file_path)
    /\ processed' = processed + 1
    /\ \/ StaticMetadataFails(file_path)
       \/ AnalysisFails(file_path)
       \/ \E analysis \in MapperAnalyses : AnalysisSucceeds(file_path, analysis)
    /\ UNCHANGED <<index_json, pc, runs, tool>>

\* main(): open("index.json", "w") truncates the file.
OpenIndex ==
    /\ pc = "loop"
    /\ index_json' = IndexTruncated
    /\ pc' = "dump"
    /\ UNCHANGED <<docs, master_index, processed, runs, log, analyzed, saved, tool>>

\* main(): json.dump(master_index, f), and the run is done.
DumpIndex ==
    /\ pc = "dump"
    /\ index_json' = IndexDoc(master_index)
    /\ pc' = "idle"
    /\ log' = [msg |-> "Done", file |-> <<>>]
    /\ UNCHANGED <<docs, master_index, processed, runs, analyzed, saved, tool>>

\* The run is interrupted (KeyboardInterrupt, kill, an uncaught error such as
\* an unreadable source file) between two steps.
Interrupt ==
    /\ pc \in {"loop", "dump"}
    /\ pc' = "idle"
    /\ log' = [msg |-> "Interrupted", file |-> <<>>]
    /\ UNCHANGED <<index_json, docs, master_index, processed, runs, analyzed, saved, tool>>

\* The run is interrupted inside process_single_file between
\* open(output_file, "w") and f.write(...).
InterruptDuringSave(file_path) ==
    /\ InLoop
    /\ ~IsSubstr(PyCache, file_path)
    /\ docs' = WriteFile(docs, output_file(file_path), TruncatedDoc)
    /\ pc' = "idle"
    /\ log' = [msg |-> "Interrupted", file |-> file_path]
    /\ UNCHANGED <<index_json, master_index, processed, runs, analyzed, saved, tool>>

RunStep ==
    \/ StartRun
    \/ \E file \in SourceTree : SkipPycache(file)
    \/ \E file \in SourceTree : process_single_file(file)
    \/ OpenIndex
    \/ DumpIndex

Next ==
    \/ RunStep
    \/ Interrupt
    \/ \E file \in SourceTree : InterruptDuringSave(file)

Spec == Init /\ [][Next]_vars

\* Runs that are never interrupted.
CompletedRuns == Init /\ [][RunStep]_vars

(***************************************************************************)
(* The query tool (silice_query.py) and the bridge (silice_bridge.py).     *)
(* A Python dict is a sequence of [key, value] records in insertion order. *)
(***************************************************************************)
MaxEntries == 3
MaxTopK == 2

Range(seq) == {seq[i] : i \in 1..Len(seq)}

RECURSIVE Join(_, _)
\* sep.join(parts)
Join(parts, sep) ==
    IF parts = <<>> THEN <<>>
    ELSE IF Len(parts) = 1 THEN parts[1]
    ELSE parts[1] \o sep \o Join(Tail(parts), sep)

LowerChar(c) ==
    CASE c = "A" -> "a" [] c = "B" -> "b" [] c = "C" -> "c" [] OTHER -> c

\* str.lower()
Lower(s) == [i \in 1..Len(s) |-> LowerChar(s[i])]

RECURSIVE SplitFrom(_, _, _)
\* str.split(): the maximal runs of non-whitespace characters, in order.
SplitFrom(s, word, words) ==
    IF s = <<>> THEN (IF word = <<>> THEN words ELSE Append(words, word))
    ELSE IF Head(s) = " "
         THEN SplitFrom(Tail(s), <<>>,
                        IF word = <<>> THEN words ELSE Append(words, word))
         ELSE SplitFrom(Tail(s), Append(word, Head(s)), words)

Split(s) == SplitFrom(s, <<>>, <<>>)

\* d[key] = value
DictSet(d, key, value) ==
    IF \E i \in 1..Len(d) : d[i].key = key
    THEN [i \in 1..Len(d) |->
            IF d[i].key = key THEN [key |-> key, value |-> value] ELSE d[i]]
    ELSE Append(d, [key |-> key, value |-> value])

RECURSIVE load_all_maps(_, _, _)
\* _load_all_maps without the exists() test: open() raises on a missing document.
load_all_maps_unchecked(graph_nodes, fs, nodes) ==
    IF graph_nodes = <<>> THEN [error |-> "none", nodes |-> nodes]
    ELSE LET entry == Head(graph_nodes)
         IN  IF entry.map_ref \in DOMAIN fs /\ fs[entry.map_ref].valid
             THEN load_all_maps(Tail(graph_nodes), fs,
                     DictSet(nodes, entry.file, fs[entry.map_ref].value))
             ELSE [error |-> "FileNotFoundError", nodes |-> nodes]

\* SiliceGraph._load_all_maps: entries whose document is missing are passed
\* over; json.load raises on a document that is not JSON.
load_all_maps(graph_nodes, fs, nodes) ==
    IF graph_nodes = <<>> THEN [error |-> "none", nodes |-> nodes]
    ELSE LET entry == Head(graph_nodes)
         IN  IF entry.map_ref \in DOMAIN fs
             THEN IF fs[entry.map_ref].valid
                  THEN load_all_maps(Tail(graph_nodes), fs,
                          DictSet(nodes, entry.file, fs[entry.map_ref].value))
                  ELSE [error |-> "JSONDecodeError", nodes |-> nodes]
             ELSE load_all_maps(Tail(graph_nodes), fs, nodes)

\* SiliceGraph.__init__
SiliceGraph(index_file, fs) ==
    CASE index_file.state = "absent" ->
            [error |-> "FileNotFoundError", nodes |-> <<>>]
      [] index_file.state = "truncated" ->
            [error |-> "JSONDecodeError", nodes |-> <<>>]
      [] OTHER -> load_all_maps(index_file.value.graph_nodes, fs, <<>>)

CallIn ==
    <<"f", "u", "n", "c", "t", "i", "o", "n", " ",
      "c", "a", "l", "l", " ", "i", "n", " ">>

\* find_dependents: the dependencies of one file that mention the target.
DepHits(file_path, data, target_name) ==
    LET hits == SelectSeq(data.dependencies,
                          LAMBDA dep : IsSubstr(target_name, dep.target))
    IN  [i \in 1..Len(hits) |-> <<file_path, hits[i].type>>]

\* CallHits with `target_name in func.calls`: a call equal to the target.
CallHitsExact(file_path, data, target_name) ==
    LET hits == SelectSeq(data.functions,
                    LAMBDA func : \E k \in 1..Len(func.calls) :
                                     func.calls[k] = target_name)
    IN  [i \in 1..Len(hits) |-> <<file_path, CallIn \o hits[i].name>>]

\* find_dependents: the functions of one file with a call that mentions the target.
CallHits(file_path, data, target_name) ==
    LET hits == SelectSeq(data.functions,
                    LAMBDA func : \E k \in 1..Len(func.calls) :
                                     IsSubstr(target_name, func.calls[k]))
    IN  [i \in 1..Len(hits) |-> <<file_path, CallIn \o hits[i].name>>]

RECURSIVE Impacted(_, _)
\* find_dependents: the list `impacted`, in the order it is appended to.
Impacted(nodes, target_name) ==
    IF nodes = <<>> THEN <<>>
    ELSE DepHits(Head(nodes).key, Head(nodes).value, target_name)
         \o CallHits(Head(nodes).key, Head(nodes).value, target_name)
         \o Impacted(Tail(nodes), target_name)

\* find_dependents: what is printed, the lines as the set they are iterated from.
find_dependents(nodes, target_name) ==
    LET impacted == Impacted(nodes, target_name)
    IN  IF impacted = <<>>
        THEN [none_found |-> TRUE, lines |-> {}]
        ELSE [none_found |-> FALSE, lines |-> Range(impacted)]

CommaSpace == <<",", " ">>

\* show_summary: one report per loaded file whose path contains file_query.
show_summary(nodes, file_query) ==
    LET hits == SelectSeq(nodes, LAMBDA n : IsSubstr(file_query, n.key))
    IN  [i \in 1..Len(hits) |->
            [file |-> hits[i].key,
             summary |-> hits[i].value.summary,
             functions |->
                Join([k \in 1..Len(hits[i].value.functions) |->
                        hits[i].value.functions[k].name], CommaSpace)]]

\* retrieve_context: the overlap score of one index entry.
Score(node, query_words) ==
    Cardinality({word \in query_words :
                    \/ IsSubstr(word, Lower(node.summary))
                    \/ IsSubstr(word, Lower(node.file))})

RECURSIVE InsertDescending(_, _)
\* An insertion that places x before the elements of equal score.
InsertDescendingTiesFirst(sorted, x) ==
    IF sorted = <<>> THEN <<x>>
    ELSE IF Head(sorted)[1] > x[1]
         THEN <<Head(sorted)>> \o InsertDescending(Tail(sorted), x)
         ELSE <<x>> \o sorted

\* Place x after every element whose score is not smaller.
InsertDescending(sorted, x) ==
    IF sorted = <<>> THEN <<x>>
    ELSE IF Head(sorted)[1] >= x[1]
         THEN <<Head(sorted)>> \o InsertDescending(Tail(sorted), x)
         ELSE <<x>> \o sorted

RECURSIVE SortDescending(_)
\* list.sort(key=lambda x: x[0], reverse=True): stable, by descending score.
SortDescending(scores) ==
    IF scores = <<>> THEN <<>>
    ELSE InsertDescending(SortDescending(SubSeq(scores, 1, Len(scores) - 1)),
                          scores[Len(scores)])

Separator == <<"\n", "-", "-", "-", "\n">>

\* f.read() of a per-file document: its JSON text as one token, or nothing.
ReadText(doc) == IF doc.valid THEN <<doc.value>> ELSE <<>>

\* SiliceBridge.retrieve_context, for top_k >= 0.
retrieve_context(index, fs, query, top_k) ==
    LET query_words == Range(Split(Lower(query)))
        nodes == index.graph_nodes
        scored == SelectSeq(nodes, LAMBDA node : Score(node, query_words) > 0)
        scores == [i \in 1..Len(scored) |->
                     <<Score(scored[i], query_words), scored[i].map_ref>>]
        sorted == SortDescending(scores)
        top == SubSeq(sorted, 1, IF top_k < Len(sorted) THEN top_k ELSE Len(sorted))
        relevant_maps == [i \in 1..Len(top) |-> top[i][2]]
        existing == SelectSeq(relevant_maps, LAMBDA map_path : map_path \in DOMAIN fs)
        context_data == [i \in 1..Len(existing) |-> ReadText(fs[existing[i]])]
    IN  Join(context_data, Separator)

(***************************************************************************)
(* The disk states the readers are run on: any index of distinct files of  *)
(* the source tree, and any set of documents, each missing, truncated or   *)
(* the map of a file that is saved under its name.                         *)
(***************************************************************************)
Import == <<"i", "m", "p", "o", "r", "t">>
Call == <<"c", "a", "l", "l">>

Dep(source, target, type) == [source |-> source, target |-> target, type |-> type]

Func(name, calls) ==
    [name |-> name, signature |-> name \o <<"(", ")">>, docstring |-> <<>>,
     calls |-> calls, logic_summary |-> <<>>]

QueryAnalyses ==
    { Analysis(<<"A", "b">>,
               << Func(<<"f">>, << <<"p", "q">> >>),
                  Func(<<"g">>, << <<"r">>, <<"q">> >>) >>,
               << Dep(<<"m">>, <<"p", "q">>, Import),
                  Dep(<<"m">>, <<"p">>, Import) >>),
      Analysis(<<"c", " ", "a">>,
               << Func(<<"h">>, <<>>) >>,
               << Dep(<<"n">>, <<"q">>, Call) >>) }

QueryFiles == {file \in SourceTree : ~IsSubstr(PyCache, file)}

QuerySummaries == {a.summary : a \in QueryAnalyses}

QueryEntries ==
    {[file |-> file, map_ref |-> output_file(file), summary |-> summary] :
        file \in QueryFiles, summary \in QuerySummaries}

QueryGraphNodes ==
    {g \in UNION {[1..n -> QueryEntries] : n \in 0..MaxEntries} : UniqueFiles(g)}

DocNames == {output_file(file) : file \in QueryFiles}

DocContents(name) ==
    {TruncatedDoc} \cup
    {JsonDoc(FileNode(file, a)) :
        file \in {f \in QueryFiles : output_file(f) = name}, a \in QueryAnalyses}

QueryDocs ==
    UNION {{fs \in [names -> UNION {DocContents(n) : n \in names}] :
               \A n \in names : fs[n] \in DocContents(n)} :
           names \in SUBSET DocNames}

Targets == { <<"p">>, <<"p", "q">>, <<"z">> }
FileQueries == { <<"b">>, <<"c">>, <<"a", "/">>, <<"z">> }
BridgeQueries ==
    { <<"a", "b", " ", "c">>, <<"A", "B">>, <<"c", " ", " ", "c">>,
      <<"z">>, <<" ", "b", " ", "y", " ", "a">> }

QueryInit ==
    /\ index_json \in
          {IndexAbsent} \cup
          {IndexDoc([project_root |-> Cwd, graph_nodes |-> g]) : g \in QueryGraphNodes}
    /\ docs \in QueryDocs
    /\ pc = "idle"
    /\ master_index = EmptyIndex
    /\ processed = 0
    /\ runs = 0
    /\ log = NoLog
    /\ analyzed = {}
    /\ saved = {}
    /\ tool = NoTool

Disk == <<index_json, docs>>
Mapper == <<pc, master_index, processed, runs, log, analyzed, saved>>

\* One invocation of a reader per behaviour: the readers change nothing on
\* disk, so a later invocation sees what the first one saw.
NotRunYet == tool = NoTool

ToolRun(op, arg, graph, out) ==
    [op |-> op, arg |-> arg, error |-> graph.error, nodes |-> graph.nodes,
     out |-> out]

\* silice_query.py main() without arguments: the graph is loaded, help is printed.
QueryHelp ==
    /\ NotRunYet
    /\ tool' = ToolRun("help", <<>>, SiliceGraph(index_json, docs), <<>>)
    /\ UNCHANGED <<Disk, Mapper>>

\* silice_query.py main() --impact target
QueryImpact(target_name) ==
    /\ NotRunYet
    /\ LET graph == SiliceGraph(index_json, docs)
       IN  tool' = ToolRun("impact", target_name, graph,
                           IF graph.error = "none"
                           THEN find_dependents(graph.nodes, target_name)
                           ELSE <<>>)
    /\ UNCHANGED <<Disk, Mapper>>

\* silice_query.py main() --info file_query
QueryInfo(file_query) ==
    /\ NotRunYet
    /\ LET graph == SiliceGraph(index_json, docs)
       IN  tool' = ToolRun("info", file_query, graph,
                           IF graph.error = "none"
                           THEN show_summary(graph.nodes, file_query)
                           ELSE <<>>)
    /\ UNCHANGED <<Disk, Mapper>>

\* SiliceBridge(); retrieve_context(query, top_k)
BridgeRetrieve(query, top_k) ==
    /\ NotRunYet
    /\ tool' =
         CASE index_json.state = "absent" ->
                 [op |-> "retrieve", arg |-> <<query, top_k>>,
                  error |-> "FileNotFoundError", nodes |-> <<>>, out |-> <<>>]
           [] index_json.state = "truncated" ->
                 [op |-> "retrieve", arg |-> <<query, top_k>>,
                  error |-> "JSONDecodeError", nodes |-> <<>>, out |-> <<>>]
           [] OTHER ->
                 [op |-> "retrieve", arg |-> <<query, top_k>>,
                  error |-> "none", nodes |-> <<>>,
                  out |-> retrieve_context(index_json.value, docs, query, top_k)]
    /\ UNCHANGED <<Disk, Mapper>>

QueryNext ==
    \/ QueryHelp
    \/ \E target_name \in Targets : QueryImpact(target_name)
    \/ \E file_query \in FileQueries : QueryInfo(file_query)
    \/ \E query \in BridgeQueries, top_k \in 0..MaxTopK : BridgeRetrieve(query, top_k)

QuerySpec == QueryInit /\ [][QueryNext]_vars

(***************************************************************************)
(* Properties of the readers.                                              *)
(***************************************************************************)
Keys(nodes) == {nodes[i].key : i \in 1..Len(nodes)}

C5_FirstMatchOnly ==
    (tool.op = "info" /\ tool.error = "none") =>
        LET matches == {i \in 1..Len(tool.nodes) : IsSubstr(tool.arg, tool.nodes[i].key)}
        IN  matches # {} =>
               LET first == tool.nodes[Min(matches)]
               IN  /\ Len(tool.out) = 1
                   /\ tool.out[1].file = first.key
                   /\ tool.out[1].summary = first.value.summary
                   /\ tool.out[1].functions =
                         Join([k \in 1..Len(first.value.functions) |->
                                 first.value.functions[k].name], CommaSpace)

\* C6: find_dependents reports exactly the set of the pairs (file, type) of
\* the dependencies whose target contains the name and the pairs
\* (file, "function call in " + name) of the functions with a call that
\* contains it; it reports that there are none exactly when that set is empty.
C6_Dependents ==
    (tool.op = "impact" /\ tool.error = "none") =>
        LET byDep ==
              UNION {{<<tool.nodes[i].key, tool.nodes[i].value.dependencies[k].type>> :
                        k \in {k \in 1..Len(tool.nodes[i].value.dependencies) :
                                 IsSubstr(tool.arg,
                                          tool.nodes[i].value.dependencies[k].target)}} :
                     i \in 1..Len(tool.nodes)}
            byCall ==
              UNION {{<<tool.nodes[i].key, CallIn \o tool.nodes[i].value.functions[k].name>> :
                        k \in {k \in 1..Len(tool.nodes[i].value.functions) :
                                 \E c \in 1..Len(tool.nodes[i].value.functions[k].calls) :
                                    IsSubstr(tool.arg,
                                             tool.nodes[i].value.functions[k].calls[c])}} :
                     i \in 1..Len(tool.nodes)}
        IN  /\ tool.out.lines = byDep \cup byCall
            /\ tool.out.none_found = (byDep \cup byCall = {})

\* The name "p" is found in the dependency targets "pq" and "p" of one file,
\* both of one type (one pair after de-duplication), and in a call "pq".
C6_Witness ==
    /\ tool.op = "impact"
    /\ tool.error = "none"
    /\ tool.arg = <<"p">>
    /\ ~tool.out.none_found
    /\ Cardinality(tool.out.lines) < Len(Impacted(tool.nodes, tool.arg))
    /\ \E line \in tool.out.lines : line[2] = Import
    /\ \E line \in tool.out.lines : line[2] = CallIn \o <<"f">>

\* C7: retrieve_context keeps the index entries of score > 0 (the number of
\* distinct lowercase whitespace-delimited query words found in the lowercased
\* summary or file name), by descending score and then index order, the first
\* top_k of them, and returns the text of their existing documents joined by
\* the separator: the empty string if there is none.
C7_Retrieval ==
    (tool.op = "retrieve" /\ tool.error = "none") =>
        LET g == index_json.value.graph_nodes
            q == Lower(tool.arg[1])
            top_k == tool.arg[2]
            words == {SubSeq(q, ij[1], ij[2]) : ij \in
                        {ij \in (1..Len(q)) \X (1..Len(q)) :
                           /\ ij[1] <= ij[2]
                           /\ \A k \in ij[1]..ij[2] : q[k] # " "
                           /\ (ij[1] = 1 \/ q[ij[1] - 1] = " ")
                           /\ (ij[2] = Len(q) \/ q[ij[2] + 1] = " ")}}
            sc(i) == Cardinality({w \in words :
                                    \/ IsSubstr(w, Lower(g[i].summary))
                                    \/ IsSubstr(w, Lower(g[i].file))})
            pos == {i \in 1..Len(g) : sc(i) > 0}
            rank(i) == 1 + Cardinality({j \in pos :
                                          \/ sc(j) > sc(i)
                                          \/ (sc(j) = sc(i) /\ j < i)})
            n == IF top_k < Cardinality(pos) THEN top_k ELSE Cardinality(pos)
            kept == [r \in 1..n |-> CHOOSE i \in pos : rank(i) = r]
            existing == SelectSeq(kept, LAMBDA i : g[i].map_ref \in DOMAIN docs)
            texts == [k \in 1..Len(existing) |-> ReadText(docs[g[existing[k]].map_ref])]
        IN  /\ tool.out = Join(texts, Separator)
            /\ (pos = {} \/ existing = <<>>) => tool.out = <<>>

\* With top_k = 1, a later entry of the index scores above an earlier one that
\* also scores, and only the later entry's document is returned.
C7_Witness ==
    /\ tool.op = "retrieve"
    /\ tool.error = "none"
    /\ tool.arg[2] = 1
    /\ LET g == index_json.value.graph_nodes
           words == Range(Split(Lower(tool.arg[1])))
       IN  \E i, j \in 1..Len(g) :
              /\ i < j
              /\ Score(g[i], words) > 0
              /\ Score(g[j], words) > Score(g[i], words)
              /\ \A k \in 1..Len(g) : Score(g[k], words) <= Score(g[j], words)
              /\ \A k \in 1..(j - 1) : Score(g[k], words) < Score(g[j], words)
              /\ g[i].map_ref \in DOMAIN docs
              /\ g[j].map_ref \in DOMAIN docs
              /\ g[i].map_ref # g[j].map_ref
              /\ docs[g[j].map_ref].valid
              /\ tool.out = <<docs[g[j].map_ref].value>>

(***************************************************************************)
(* Properties of the mapper.                                               *)
(***************************************************************************)
\* A step in which process_single_file returned for `file` having printed msg.
Returned(file, msgs) ==
    /\ pc = "loop"
    /\ processed' = processed + 1
    /\ log'.file = file
    /\ log'.msg \in msgs

\* C1: after any number of completed mapper runs, index.json holds at most one
\* entry per `file` value and as many entries as distinct files were ever
\* analysed with success; the same holds of the in-memory index during a run.
C1_IndexSizeIsDistinctFiles ==
    /\ UniqueFiles(master_index.graph_nodes)
    /\ Len(master_index.graph_nodes) = Cardinality(analyzed)
    /\ (pc = "idle" /\ runs > 0) =>
          /\ index_json.state = "json"
          /\ UniqueFiles(index_json.value.graph_nodes)
          /\ Len(index_json.value.graph_nodes) = Cardinality(analyzed)

\* Three completed runs analysed two distinct files, at least one of them in
\* two runs, and the index holds two entries.
C1_Witness ==
    /\ pc = "idle"
    /\ runs = 3
    /\ log.msg = "Done"
    /\ Cardinality(analyzed) = 2
    /\ Len(index_json.value.graph_nodes) = 2

\* C2: when process_single_file succeeds for a file that already has an entry,
\* the entry gets the new summary and map_ref at its old position, the number
\* of entries is unchanged and every other entry is unchanged.
C2_UpdateInPlace ==
    [][\A file \in SourceTree :
         Returned(file, {"Updated index"}) =>
            LET old == master_index.graph_nodes
                new == master_index'.graph_nodes
                i == Min({k \in 1..Len(old) : old[k].file = file})
            IN  /\ HasEntry(old, file)
                /\ Len(new) = Len(old)
                /\ new[i].file = file
                /\ new[i].map_ref = output_file(file)
                /\ new[i].summary = docs'[output_file(file)].value.summary
                /\ \A j \in 1..Len(old) : j # i => new[j] = old[j]]_vars

\* An entry that is not the last one was updated to a new summary.
C2_Witness ==
    /\ pc = "loop"
    /\ log.msg = "Updated index"
    /\ Len(master_index.graph_nodes) >= 2
    /\ master_index.graph_nodes[1].file = log.file
    /\ index_json.state = "json"
    /\ index_json.value.graph_nodes[1].file = log.file
    /\ index_json.value.graph_nodes[1].summary # master_index.graph_nodes[1].summary

\* C4: two distinct source files never get the same per-file document: the
\* entries of the index reference pairwise distinct documents.
C4_DistinctDocuments ==
    \A i, j \in 1..Len(master_index.graph_nodes) :
        master_index.graph_nodes[i].file # master_index.graph_nodes[j].file
            => master_index.graph_nodes[i].map_ref # master_index.graph_nodes[j].map_ref

\* C8: the index.json a previous run persisted changes only in the step that
\* completes a run: no step that leaves the run unfinished, and no
\* interruption, changes it.
C8_IndexUntouchedUntilDone ==
    [][(index_json.state = "json" /\ (pc' # "idle" \/ log'.msg = "Interrupted"))
          => index_json' = index_json]_vars

\* Runs that are never interrupted, and that go on: the loop over
\* files_to_process ends and the index is then written.
FairRuns == CompletedRuns /\ WF_vars(OpenIndex) /\ WF_vars(DumpIndex)

SkipMessages == {"Analyzing", "AI Analysis failed"}

\* C9: when the static extractor or the analysis collaborator fails for a file,
\* process_single_file changes neither the master index nor any document nor
\* index.json, the run stays in its loop, and the run goes on to persist its
\* index.
C9_SkipLeavesNoTrace ==
    /\ [][\A file \in SourceTree :
            Returned(file, SkipMessages) =>
               /\ master_index' = master_index
               /\ docs' = docs
               /\ index_json' = index_json
               /\ pc' = "loop"]_vars
    /\ ((pc = "loop" /\ log.msg \in SkipMessages)
          ~> (pc = "idle" /\ log.msg = "Done" /\ index_json = IndexDoc(master_index)))

\* In a second run, with a non-empty index, the collaborator failed for a file.
C9_Witness ==
    /\ pc = "loop"
    /\ log.msg = "AI Analysis failed"
    /\ runs >= 2
    /\ Len(master_index.graph_nodes) >= 1
    /\ ~HasEntry(master_index.graph_nodes, log.file)

====
